---- MODULE Spec2Model ----
(***************************************************************************)
(* pzp-hardware: hardware Pieces for the puzzlepiece framework.            *)
(*                                                                         *)
(* Every Piece is modelled as the record of its Python attributes and      *)
(* param values; every setter, getter and action is one atomic step (the   *)
(* GUI thread runs a handler to completion).  The variable `last` records  *)
(* the operation that has just run: which one, what it returned or raised  *)
(* and the calls it made on the vendor library, in order.                  *)
(***************************************************************************)
EXTENDS Integers, Sequences, FiniteSets, TLC

VARIABLES debug, apt, cam, lf, ser, http, dmd, slm, sdk, pv, pm, oo, live, last

vars == <<debug, apt, cam, lf, ser, http, dmd, slm, sdk, pv, pm, oo, live, last>>

(***************************************************************************)
(* Bounds of the model                                                     *)
(***************************************************************************)
\* stage/piezo positions and other numeric param values range over 0..MaxPos
MaxPos == 1
\* number of apt_stage Pieces in the Puzzle (beside the one apt_piezo Piece)
NStages == 1
\* nesting depth of param.set_value calls after which a handler is cut off
MaxDepth == 4
\* polls of experiment.IsRunning that can still find an acquisition running
MaxPolls == 2
\* values of the DMD's 'n_images' param range over 1..MaxImages
MaxImages == 2
\* number of camera Pieces in the Puzzle
NCams == 3

Pos == 0..MaxPos

(***************************************************************************)
(* The record of one operation                                             *)
(***************************************************************************)
\* a call on a vendor handle: function f, argument a, result r, and g, the
\* state of the device (or of the guarding param) when the call was made
Call(f, a, r, g) == [f |-> f, a |-> a, r |-> r, g |-> g]

\* an operation: outcome is "value" (returned a value), "none" (returned
\* None) or "raised" (an exception, named in err, propagated to the caller)
Op(dev, who, op, arg, pre, outcome, err, calls) ==
    [dev |-> dev, who |-> who, op |-> op, arg |-> arg, pre |-> pre,
     outcome |-> outcome, err |-> err, calls |-> calls]

NoOp == Op("init", 0, "init", 0, FALSE, "none", "", <<>>)

(***************************************************************************)
(* ThorLabs APT: apt_stage.Piece (Pieces 1..NStages) and apt_piezo.Piece   *)
(* (Piece 0) share the thorlabs_apt library through puzzle.globals['apt']. *)
(*                                                                         *)
(* apt.glob   'apt' is in puzzle.globals (the library is loaded)           *)
(* apt.loads  library loads since the library was last cleaned up          *)
(* apt.conn   each Piece's 'connected' param                               *)
(* apt.motor  each Piece has the attribute `motor`                         *)
(* apt.pos    each stage's 'pos' param; apt.chan: the piezo's 'x', 'y'     *)
(* apt.hwChan the channel the piezo controller has selected                *)
(* apt.cut    a handler was cut off at the recursion limit                 *)
(* apt.calls, apt.err  the running handler's calls and pending exception   *)
(***************************************************************************)
\* channels of apt_piezo.Piece: zip((0, 1), "xy")
NChan == 2

Piezo == 0
Stages == 1..NStages
AptPieces == 0..NStages
Chans == 0..(NChan - 1)

AptCall(a, f, x, r) == [a EXCEPT !.calls = Append(@, Call(f, x, r, a.hwChan))]

AptRaise(a, e) == [a EXCEPT !.err = e]

EnsureAptUnguarded(a) ==
    [AptCall(a, "load_library", 0, 0) EXCEPT !.glob = TRUE, !.loads = @ + 1]

\* _ensure_apt: load the library and publish it unless 'apt' is a global
EnsureApt(a) ==
    IF ~a.glob
    THEN [AptCall(a, "load_library", 0, 0) EXCEPT !.glob = TRUE, !.loads = @ + 1]
    ELSE a

RECURSIVE AptCleanup(_, _, _)
RECURSIVE EmitDeleted(_, _, _)
RECURSIVE Disconnect(_, _, _)

GlobalDeletedOtherName(a, q, d) == a

\* the slot global_deleted("apt") of Piece q: self["connected"].set_value(False),
\* which runs q's disconnect() and stores its result; d is the recursion left
GlobalDeleted(a, q, d) ==
    IF d = 0 THEN [a EXCEPT !.cut = TRUE] ELSE Disconnect(a, q, d - 1)

\* puzzle.globals.deleted.emit("apt"): the slots run in the order the Pieces
\* connected them, q and the Pieces after it still to come
EmitDeleted(a, q, d) ==
    IF q > NStages THEN a ELSE EmitDeleted(GlobalDeleted(a, q, d), q + 1, d)

\* _apt_cleanup: clean the library up and delete the global, which emits
\* puzzle.globals.deleted
AptCleanup(a, p, d) ==
    IF a.glob
    THEN EmitDeleted([AptCall(a, "cleanup", p, 0) EXCEPT !.glob = FALSE, !.loads = 0], 0, d)
    ELSE a

\* disconnect(), and the 0 it returns stored in 'connected'
Disconnect(a, p, d) ==
    IF debug
    THEN [a EXCEPT !.conn[p] = FALSE]
    ELSE LET a1 == [a EXCEPT !.motor[p] = FALSE]
             a2 == AptCleanup(a1, p, d)
         IN  [a2 EXCEPT !.conn[p] = FALSE]

\* the ensurer _ensure
MotorEnsured(a, p) == debug \/ (a.glob /\ a.motor[p])

\* what an operation leaves behind: the Piece's state without the handler's
\* transient fields, and the record of the operation
AptDone(a, p, op, arg, okOutcome) ==
    /\ apt' = [a EXCEPT !.calls = <<>>, !.err = ""]
    /\ last' = Op("apt", p, op, arg, [glob |-> apt.glob, conn |-> apt.conn],
                  IF a.err # "" THEN "raised" ELSE IF a.cut THEN "raised" ELSE okOutcome,
                  IF a.err # "" THEN a.err ELSE IF a.cut THEN "RecursionError" ELSE "",
                  a.calls)
    /\ UNCHANGED <<debug, cam, lf, ser, http, dmd, slm, sdk, pv, pm, oo, live>>

\* apt_stage: the 'connected' param set to True
StageConnect(p, serialOk, hwOk) ==
    /\ p \in Stages
    /\ IF debug
       THEN AptDone([apt EXCEPT !.conn[p] = TRUE], p, "connect", 0, "value")
       ELSE LET a1 == EnsureApt(apt)
            IN  IF ~serialOk
                THEN AptDone(AptRaise(a1, "Motor serial number is not a valid integer"),
                             p, "connect", 0, "value")
                ELSE IF ~hwOk
                THEN AptDone(AptRaise(AptCall(a1, "Motor", p, 1), "APT error"),
                             p, "connect", 0, "value")
                ELSE AptDone([AptCall(a1, "Motor", p, 0) EXCEPT
                                 !.motor[p] = TRUE, !.conn[p] = TRUE],
                             p, "connect", 0, "value")

\* apt_piezo: the 'connected' param set to True
PiezoConnect(serialOk, errCode) ==
    IF debug
    THEN AptDone([apt EXCEPT !.conn[Piezo] = TRUE], Piezo, "connect", 0, "value")
    ELSE LET a1 == [EnsureApt(apt) EXCEPT !.motor[Piezo] = TRUE]
         IN  IF ~serialOk
             THEN AptDone(AptRaise(a1, "ValueError"), Piezo, "connect", 0, "value")
             ELSE IF errCode # 0
             THEN AptDone(AptRaise(AptCall(AptCall(a1, "InitHWDevice", 0, errCode),
                                           "_get_error_text", errCode, 0),
                                   "Failed to connect to piezo"),
                          Piezo, "connect", 0, "value")
             ELSE AptDone([AptCall(a1, "InitHWDevice", 0, 0) EXCEPT !.conn[Piezo] = TRUE],
                          Piezo, "connect", 0, "value")

\* the 'connected' param set to False (both kinds of Piece)
AptDisconnect(p) ==
    /\ p \in AptPieces
    /\ AptDone(Disconnect(apt, p, MaxDepth), p, "disconnect", 0, "value")

\* the action Cleanup (both kinds of Piece)
AptCleanupAction(p) ==
    /\ p \in AptPieces
    /\ AptDone(AptCleanup(apt, p, MaxDepth), p, "Cleanup", 0, "none")

\* apt_stage: the getter of 'pos' (get_position) run on state a; r is what
\* the stage reports
GetPosition(a, p, r) ==
    IF a.err # "" THEN a
    ELSE IF ~MotorEnsured(a, p) THEN AptRaise(a, "Motor not connected")
    ELSE IF debug THEN a
    ELSE [AptCall(a, "position", p, r) EXCEPT !.pos[p] = r]

\* apt_stage: 'pos' set to v (move_to returns None out of debug mode, so the
\* param then takes its value from the getter)
StageMoveTo(p, v, r) ==
    /\ p \in Stages
    /\ IF ~MotorEnsured(apt, p)
       THEN AptDone(AptRaise(apt, "Motor not connected"), p, "pos_set", v, "value")
       ELSE IF debug
       THEN AptDone([apt EXCEPT !.pos[p] = v], p, "pos_set", v, "value")
       ELSE AptDone(GetPosition(AptCall(apt, "move_to", v, 0), p, r), p, "pos_set", v, "value")

\* apt_stage: 'pos' read
StageGetPosition(p, r) ==
    /\ p \in Stages
    /\ AptDone(GetPosition(apt, p, r), p, "pos_get", 0, "value")

\* apt_stage: the action Home.  In debug mode the handler goes through
\* self.param (an attribute this repository never defines: it either raises
\* AttributeError or is the params dictionary, hasParam) and, not returning,
\* goes on to self.motor.move_home, as it does out of debug mode
StageHome(p, hasParam, r) ==
    /\ p \in Stages
    /\ IF ~MotorEnsured(apt, p)
       THEN AptDone(AptRaise(apt, "Motor not connected"), p, "Home", 0, "none")
       ELSE LET a1 == IF ~debug THEN apt
                      ELSE IF hasParam THEN [apt EXCEPT !.pos[p] = 0]
                      ELSE AptRaise(apt, "AttributeError: param")
                a2 == IF a1.err # "" THEN a1
                      ELSE IF ~a1.motor[p] THEN AptRaise(a1, "AttributeError: motor")
                      ELSE GetPosition(AptCall(a1, "move_home", p, 0), p, r)
            IN  AptDone(a2, p, "Home", 0, "none")

\* apt_stage: the action Identify
StageIdentify(p) ==
    /\ p \in Stages
    /\ IF ~MotorEnsured(apt, p)
       THEN AptDone(AptRaise(apt, "Motor not connected"), p, "Identify", 0, "none")
       ELSE IF debug
       THEN AptDone(apt, p, "Identify", 0, "none")
       ELSE AptDone(AptCall(apt, "identify", p, 0), p, "Identify", 0, "none")

\* apt_piezo: set_channel() of channel i; e is the code PZMOT_SetChannel returns
SetChannelIgnoringError(a, i, e) ==
    IF a.err # "" THEN a
    ELSE [AptCall(a, "PZMOT_SetChannel", i, e) EXCEPT !.hwChan = IF e = 0 THEN i ELSE @]

set_channel(a, i, e) ==
    IF a.err # "" THEN a
    ELSE IF e = 0
    THEN [AptCall(a, "PZMOT_SetChannel", i, 0) EXCEPT !.hwChan = i]
    ELSE AptRaise(AptCall(AptCall(a, "PZMOT_SetChannel", i, e), "_get_error_text", e, 0),
                  "Failed to select channel")

\* apt_piezo: the getter of channel i (get_value); e1, e2 are the codes the
\* library returns and r the position it reports
PiezoGetValue(a, i, e1, e2, r) ==
    IF a.err # "" THEN a
    ELSE IF ~MotorEnsured(a, Piezo) THEN AptRaise(a, "Motor not connected")
    ELSE IF debug THEN a
    ELSE LET a1 == set_channel(a, i, e1)
         IN  IF a1.err # "" THEN a1
             ELSE IF e2 # 0
             THEN AptRaise(AptCall(AptCall(a1, "PZMOT_GetPositionSteps", 0, e2),
                                   "_get_error_text", e2, 0),
                           "Failed to get the piezo value")
             ELSE [AptCall(a1, "PZMOT_GetPositionSteps", 0, 0) EXCEPT !.chan[i] = r]

\* apt_piezo: the setter of channel i (set_value), which returns None out of
\* debug mode, so that the param then takes its value from the getter
PiezoSetValue(a, i, v, e1, e2, e3, e4, r) ==
    IF ~MotorEnsured(a, Piezo) THEN AptRaise(a, "Motor not connected")
    ELSE IF debug THEN [a EXCEPT !.chan[i] = v]
    ELSE IF a.chan[i] = v THEN PiezoGetValue(a, i, e3, e4, r)
    ELSE LET a1 == set_channel(a, i, e1)
         IN  IF a1.err # "" THEN a1
             ELSE IF e2 # 0
             THEN AptRaise(AptCall(AptCall(a1, "PZMOT_MoveAbsoluteStepsEx", v, e2),
                                   "_get_error_text", e2, 0),
                           "Failed to move the piezo")
             ELSE PiezoGetValue(AptCall(a1, "PZMOT_MoveAbsoluteStepsEx", v, 0), i, e3, e4, r)

ErrCodes == {0, 1}

PiezoSet(i, v, e1, e2, e3, e4, r) ==
    AptDone(PiezoSetValue(apt, i, v, e1, e2, e3, e4, r), Piezo, "chan_set", i, "value")

PiezoGet(i, e1, e2, r) ==
    AptDone(PiezoGetValue(apt, i, e1, e2, r), Piezo, "chan_get", i, "value")

NextApt ==
    \/ \E p \in Stages, serialOk \in BOOLEAN, hwOk \in BOOLEAN : StageConnect(p, serialOk, hwOk)
    \/ \E serialOk \in BOOLEAN, e \in ErrCodes : PiezoConnect(serialOk, e)
    \/ \E p \in AptPieces : AptDisconnect(p)
    \/ \E p \in AptPieces : AptCleanupAction(p)
    \/ \E p \in Stages, v \in Pos, r \in Pos : StageMoveTo(p, v, r)
    \/ \E p \in Stages, r \in Pos : StageGetPosition(p, r)
    \/ \E p \in Stages, hasParam \in BOOLEAN, r \in Pos : StageHome(p, hasParam, r)
    \/ \E p \in Stages : StageIdentify(p)
    \/ \E i \in Chans, v \in Pos, e1 \in ErrCodes, e2 \in ErrCodes,
          e3 \in ErrCodes, e4 \in ErrCodes, r \in Pos : PiezoSet(i, v, e1, e2, e3, e4, r)
    \/ \E i \in Chans, e1 \in ErrCodes, e2 \in ErrCodes, r \in Pos : PiezoGet(i, e1, e2, r)


(***************************************************************************)
(* HoloEye SLM (holoeye/slm.py)                                            *)
(*                                                                         *)
(* slm.conn  the 'connected' param      slm.has  the attribute self.slm    *)
(* slm.wl    the 'wavelength' param     slm.corr 'correction_file' is set  *)
(***************************************************************************)
SlmCall(a, f, x, r) == [a EXCEPT !.calls = Append(@, Call(f, x, r, 0))]

SlmRaise(a, e) == [a EXCEPT !.err = e]

\* _check_call / _check_err_code on the code a call returned
SlmChecked(a, f, x, code) ==
    IF a.err # "" THEN a
    ELSE IF code # 0 THEN SlmRaise(SlmCall(a, f, x, code), "SLM error")
    ELSE SlmCall(a, f, x, 0)

\* the ensurer _ensure
SlmEnsured(a) == debug \/ a.has

SlmDone(a, op, arg, okOutcome) ==
    /\ slm' = [a EXCEPT !.calls = <<>>, !.err = ""]
    /\ last' = Op("slm", 0, op, arg, [has |-> slm.has, conn |-> slm.conn],
                  IF a.err # "" THEN "raised" ELSE okOutcome, a.err, a.calls)
    /\ UNCHANGED <<debug, apt, cam, lf, ser, http, dmd, sdk, pv, pm, oo, live>>

\* the setter of 'image'
SlmImageSetter(a, e1, e2) ==
    IF a.err # "" THEN a
    ELSE IF ~SlmEnsured(a) THEN SlmRaise(a, "SLM not connected")
    ELSE IF debug THEN a
    ELSE SlmChecked(SlmChecked(a, "loadPhaseData", 0, e1), "show", 0, e2)

\* 'connected' set to True
SlmConnect(e1, e2, e3, e4) ==
    IF debug
    THEN SlmDone([SlmImageSetter(slm, e3, e4) EXCEPT !.conn = TRUE], "connect", 0, "value")
    ELSE LET a1 == SlmChecked(slm, "SDK.Init", 0, e1)
             a2 == IF a1.err # "" THEN a1
                   ELSE SlmChecked([SlmCall(a1, "SLM.Init", 0, 0) EXCEPT !.has = TRUE],
                                   "errorCode", 0, e2)
             a3 == SlmImageSetter(a2, e3, e4)
         IN  SlmDone(IF a3.err # "" THEN a3 ELSE [a3 EXCEPT !.conn = TRUE],
                     "connect", 0, "value")

\* 'connected' set to False
SlmDisconnect ==
    IF debug
    THEN SlmDone([slm EXCEPT !.conn = FALSE], "disconnect", 0, "value")
    ELSE LET a1 == SlmCall(slm, "SDK.Close", 0, 0)
         IN  IF ~a1.has
             THEN SlmDone(SlmRaise(a1, "AttributeError: slm"), "disconnect", 0, "value")
             ELSE SlmDone([a1 EXCEPT !.has = FALSE, !.conn = FALSE], "disconnect", 0, "value")

\* 'image' set
SlmSetImage(e1, e2) == SlmDone(SlmImageSetter(slm, e1, e2), "image_set", 0, "none")

\* the getter of 'wavelength'
SlmWavelengthGetter(a, e, r) ==
    IF a.err # "" THEN a
    ELSE IF ~SlmEnsured(a) THEN SlmRaise(a, "SLM not connected")
    ELSE IF debug THEN a
    ELSE LET a1 == SlmChecked(a, "heds_slm_get_wavelength", 0, e)
         IN  IF a1.err # "" THEN a1 ELSE [a1 EXCEPT !.wl = r]

\* 'wavelength' set to v
SlmSetWavelength(v, e1, e2, r) ==
    IF ~SlmEnsured(slm)
    THEN SlmDone(SlmRaise(slm, "SLM not connected"), "wavelength_set", v, "value")
    ELSE IF debug
    THEN SlmDone([slm EXCEPT !.wl = v], "wavelength_set", v, "value")
    ELSE SlmDone(SlmWavelengthGetter(SlmChecked(slm, "setWavelength", v, e1), e2, r),
                 "wavelength_set", v, "value")

\* 'wavelength' read
SlmGetWavelength(e, r) == SlmDone(SlmWavelengthGetter(slm, e, r), "wavelength_get", 0, "value")

\* 'correction_file' set; exists: os.path.exists(value).  The setter asks
\* self.slm for its window whatever the debug flag is
SlmSetCorrectionFile(exists, e) ==
    IF ~SlmEnsured(slm)
    THEN SlmDone(SlmRaise(slm, "SLM not connected"), "correction_file_set", 0, "value")
    ELSE IF ~slm.has
    THEN SlmDone(SlmRaise(slm, "AttributeError: slm"), "correction_file_set", 0, "value")
    ELSE LET a1 == SlmCall(slm, "window", 0, 0)
             a2 == IF exists THEN SlmChecked(a1, "loadWavefrontCompensationFile", 0, e)
                   ELSE SlmChecked(a1, "clearWavefrontCompensation", 0, e)
         IN  SlmDone(IF a2.err # "" THEN a2 ELSE [a2 EXCEPT !.corr = exists],
                     "correction_file_set", 0, "value")

NextSlm ==
    \/ \E e1 \in ErrCodes, e2 \in ErrCodes, e3 \in ErrCodes, e4 \in ErrCodes :
          SlmConnect(e1, e2, e3, e4)
    \/ SlmDisconnect
    \/ \E e1 \in ErrCodes, e2 \in ErrCodes : SlmSetImage(e1, e2)
    \/ \E v \in Pos, e1 \in ErrCodes, e2 \in ErrCodes, r \in Pos : SlmSetWavelength(v, e1, e2, r)
    \/ \E e \in ErrCodes, r \in Pos : SlmGetWavelength(e, r)
    \/ \E exists \in BOOLEAN, e \in ErrCodes : SlmSetCorrectionFile(exists, e)


(***************************************************************************)
(* Thorlabs scientific camera (thorlabs/camera.py, class Base)             *)
(*                                                                         *)
(* cam.conn    the 'connected' param    cam.has  the attribute self.camera *)
(* cam.armedP  the 'armed' param        cam.hw   the open handle is armed  *)
(* cam.unl     the 'unlimited' param    cam.trig the flag self._triggered  *)
(* cam.exp     the 'exposure' param     cam.hwExp the camera's exposure    *)
(* cam.fired   a software trigger was issued to the open handle since it   *)
(*             was last armed (a history variable)                         *)
(* A call's g is the 'armed' param, the handle's being armed, cam.fired    *)
(* and the 'connected' param at the call                                   *)
(***************************************************************************)
CamCall(a, f, x, r) ==
    [a EXCEPT !.calls = Append(@, Call(f, x, r, [armed |-> a.armedP, hw |-> a.hw,
                                                  fired |-> a.fired, conn |-> a.conn]))]

CamRaise(a, e) == [a EXCEPT !.err = e]

CamDone(a, op, arg, okOutcome) ==
    /\ cam' = [a EXCEPT !.calls = <<>>, !.err = ""]
    /\ last' = Op("cam", 0, op, arg,
                  [conn |-> cam.conn, armed |-> cam.armedP, hw |-> cam.hw, has |-> cam.has],
                  IF a.err # "" THEN "raised" ELSE okOutcome, a.err, a.calls)
    /\ UNCHANGED <<debug, apt, lf, ser, http, dmd, slm, sdk, pv, pm, oo, live>>

\* dispose(): close the camera handle, if there is one
CamDispose(a) ==
    IF a.has
    THEN [CamCall(a, "dispose", 0, 0) EXCEPT !.has = FALSE, !.hw = FALSE, !.fired = FALSE]
    ELSE a

\* the ensurer _ensure_connected
CamEnsureConnected(a) ==
    IF a.err # "" THEN a
    ELSE IF ~debug /\ ~a.conn THEN CamRaise(a, "Camera not connected")
    ELSE a

\* the setter of 'armed' behind its ensurer, and the value it returns stored
\* in the param.  strict: the SDK refuses to arm an armed handle and to
\* disarm one that is not armed (it raises), rather than doing nothing
CamArmedSetter(a, value, strict) ==
    LET a0 == CamEnsureConnected(a)
    IN  IF a0.err # "" THEN a0
        ELSE IF debug THEN [a0 EXCEPT !.armedP = TRUE]
        ELSE IF value /\ ~a0.armedP
        THEN IF a0.hw /\ strict
             THEN CamRaise(CamCall(a0, "arm", 0, 1), "TLCameraError")
             ELSE [CamCall(a0, "arm", 0, 0) EXCEPT !.hw = TRUE, !.trig = FALSE, !.armedP = TRUE,
                                                    !.fired = FALSE]
        ELSE IF ~value /\ a0.armedP
        THEN IF ~a0.hw /\ strict
             THEN CamRaise(CamCall(a0, "disarm", 0, 1), "TLCameraError")
             ELSE [CamCall(a0, "disarm", 0, 0) EXCEPT !.hw = FALSE, !.trig = FALSE, !.armedP = FALSE,
                                                       !.fired = FALSE]
        ELSE a0

\* the ensurers _ensure_armed and _ensure_disarmed
CamEnsureArmed(a, strict) ==
    IF a.err # "" THEN a
    ELSE IF ~a.armedP THEN CamArmedSetter(a, TRUE, strict) ELSE a

CamEnsureDisarmed(a, strict) ==
    IF a.err # "" THEN a
    ELSE IF a.armedP THEN CamArmedSetter(a, FALSE, strict) ELSE a

\* 'connected' set to value; openOk: the SDK opens the camera
CamSetConnected(value, openOk) ==
    IF debug
    THEN CamDone([cam EXCEPT !.conn = TRUE], "connected_set", 0, "value")
    ELSE IF value /\ ~cam.conn
    THEN IF openOk
         THEN LET a1 == [CamCall(cam, "open_camera", 0, 0)
                            EXCEPT !.has = TRUE, !.hw = FALSE, !.fired = FALSE]
                  a2 == CamCall(a1, "set_image_poll_timeout_ms", 1000, 0)
                  a3 == CamCall(a2, "set_frames_per_trigger", IF a2.unl THEN 0 ELSE 1, 0)
              IN  CamDone([a3 EXCEPT !.conn = TRUE], "connected_set", 1, "value")
         ELSE CamDone(CamRaise(CamDispose(CamCall(cam, "open_camera", 0, 1)), "TLCameraError"),
                      "connected_set", 1, "value")
    ELSE IF cam.conn
    THEN CamDone([CamDispose(cam) EXCEPT !.conn = FALSE], "connected_set", 0, "value")
    ELSE CamDone([cam EXCEPT !.conn = value], "connected_set", 0, "none")

\* 'armed' set to value
CamSetArmed(value, strict) ==
    CamDone(CamArmedSetter(cam, value, strict), "armed_set", 0, "value")

\* 'unlimited' set to value: _ensure_disarmed, then _ensure_connected
CamSetUnlimited(value, strict) ==
    LET a1 == CamEnsureConnected(CamEnsureDisarmed(cam, strict))
    IN  IF a1.err # "" THEN CamDone(a1, "unlimited_set", 0, "value")
        ELSE IF debug THEN CamDone([a1 EXCEPT !.unl = value], "unlimited_set", 0, "value")
        ELSE CamDone([CamCall(a1, "set_frames_per_trigger", IF value THEN 0 ELSE 1, 0)
                         EXCEPT !.unl = value],
                     "unlimited_set", 0, "none")

\* the getter of 'exposure'
CamExposureGetter(a) ==
    LET a1 == CamEnsureConnected(a)
    IN  IF a1.err # "" THEN a1
        ELSE IF debug THEN a1
        ELSE [CamCall(a1, "get_exposure_time_us", 0, a1.hwExp) EXCEPT !.exp = a1.hwExp]

\* 'exposure' set to v (the setter returns None out of debug mode, so the
\* param then takes its value from the getter)
CamSetExposure(v) ==
    LET a1 == CamEnsureConnected(cam)
    IN  IF a1.err # "" THEN CamDone(a1, "exposure_set", v, "value")
        ELSE IF debug THEN CamDone([a1 EXCEPT !.exp = v], "exposure_set", v, "value")
        ELSE CamDone(CamExposureGetter([CamCall(a1, "set_exposure_time_us", v, 0)
                                           EXCEPT !.hwExp = v]),
                     "exposure_set", v, "value")

\* 'exposure' read
CamGetExposure == CamDone(CamExposureGetter(cam), "exposure_get", 0, "value")

\* the getter of 'roi'
CamRoiGetter(a) ==
    LET a1 == CamEnsureConnected(a)
    IN  IF a1.err # "" THEN a1
        ELSE IF debug THEN a1
        ELSE CamCall(a1, "get_roi", 0, 0)

\* the setter of 'roi': _ensure_connected, then _ensure_disarmed; it returns
\* None, so the param then takes its value from the getter
CamRoiSetter(a, v, strict) ==
    LET a1 == CamEnsureDisarmed(CamEnsureConnected(a), strict)
    IN  IF a1.err # "" THEN a1
        ELSE IF debug THEN CamRoiGetter(a1)
        ELSE CamRoiGetter(CamCall(a1, "set_roi", v, 0))

\* 'roi' set to v
CamSetRoi(v, strict) == CamDone(CamRoiSetter(cam, v, strict), "roi_set", v, "value")

\* 'roi' read
CamGetRoi == CamDone(CamRoiGetter(cam), "roi_get", 0, "value")

\* the action Reset ROI
CamResetRoi(strict) ==
    LET a1 == CamEnsureDisarmed(CamEnsureConnected(cam), strict)
    IN  IF a1.err # "" THEN CamDone(a1, "Reset ROI", 0, "none")
        ELSE IF debug THEN CamDone(a1, "Reset ROI", 0, "none")
        ELSE CamDone(CamRoiSetter(CamCall(a1, "get_roi_range", 0, 0), 0, strict),
                     "Reset ROI", 0, "none")

\* the action Trigger (it has no ensurer)
CamTriggerBody(a) ==
    IF a.err # "" THEN a
    ELSE IF debug THEN [a EXCEPT !.trig = TRUE]
    ELSE IF ~a.has THEN CamRaise([a EXCEPT !.trig = TRUE], "AttributeError: camera")
    ELSE [CamCall([a EXCEPT !.trig = TRUE], "issue_software_trigger", 0, 0) EXCEPT !.fired = TRUE]

CamTrigger == CamDone(CamTriggerBody(cam), "Trigger", 0, "none")

\* 'image' read: _ensure_connected, then _ensure_armed; frame: a frame was
\* pending before the poll timed out
CamGetImage(strict, frame) ==
    LET a1 == CamEnsureArmed(CamEnsureConnected(cam), strict)
    IN  IF a1.err # "" THEN CamDone(a1, "image_get", 0, "value")
        ELSE IF debug THEN CamDone(a1, "image_get", 0, "value")
        ELSE LET a2 == IF ~a1.unl \/ ~a1.trig THEN CamTriggerBody(a1) ELSE a1
                 a3 == IF a2.err # "" THEN a2
                       ELSE CamCall(a2, "get_pending_frame_or_null", 0, IF frame THEN 0 ELSE 1)
             IN  CamDone(IF a3.err = "" /\ ~frame
                         THEN CamRaise(a3, "Acquisition did not complete within the timeout...")
                         ELSE a3,
                         "image_get", 0, "value")

NextCam ==
    \/ \E value \in BOOLEAN, openOk \in BOOLEAN : CamSetConnected(value, openOk)
    \/ \E value \in BOOLEAN, strict \in BOOLEAN : CamSetArmed(value, strict)
    \/ \E value \in BOOLEAN, strict \in BOOLEAN : CamSetUnlimited(value, strict)
    \/ \E v \in Pos : CamSetExposure(v)
    \/ CamGetExposure
    \/ \E v \in Pos, strict \in BOOLEAN : CamSetRoi(v, strict)
    \/ CamGetRoi
    \/ \E strict \in BOOLEAN : CamResetRoi(strict)
    \/ CamTrigger
    \/ \E strict \in BOOLEAN, frame \in BOOLEAN : CamGetImage(strict, frame)


(***************************************************************************)
(* Princeton Instruments LightField (princeton/lightfield.py, class Piece) *)
(*                                                                         *)
(* lf.auto     the attributes self.automation and self.experiment exist    *)
(* lf.running  experiment.IsRunning                                        *)
(* lf.val      the experiment's settings behind the three spinbox params   *)
(* A call's g is experiment.IsRunning at the call                          *)
(***************************************************************************)
LfParams == {"integration", "center", "roi"}

LfCall(a, f, x, r) == [a EXCEPT !.calls = Append(@, Call(f, x, r, a.running))]

LfRaise(a, e) == [a EXCEPT !.err = e]

LfDone(a, op, arg, okOutcome) ==
    /\ lf' = [a EXCEPT !.calls = <<>>, !.err = ""]
    /\ last' = Op("lf", 0, op, arg, [auto |-> lf.auto, running |-> lf.running],
                  IF a.err # "" THEN "raised" ELSE okOutcome, a.err, a.calls)
    /\ UNCHANGED <<debug, apt, cam, ser, http, dmd, slm, sdk, pv, pm, oo, live>>

\* the ensurer _ensure
LfEnsure(a) ==
    IF ~debug /\ ~a.auto THEN LfRaise(a, "You have to launch Lightfield first.") ELSE a

\* while self.experiment.IsRunning: time.sleep(...), the acquisition ending
\* after n polls
RECURSIVE LfWait(_, _)
LfWait(a, n) ==
    IF a.running /\ n > 0 THEN LfWait(LfCall(a, "IsRunning", 0, 1), n - 1)
    ELSE LfCall([a EXCEPT !.running = FALSE], "IsRunning", 0, 0)

LfStopNoWait(a, polls) ==
    IF a.err # "" \/ debug THEN a ELSE LfCall(a, "Stop", 0, 0)

LfStopSkipped(a, polls) == a

\* the ensurer _stop; experiment.Stop() and the same loop inline in the
\* 'values' getter and in Acquire
LfStop(a, polls) ==
    IF a.err # "" \/ debug THEN a ELSE LfWait(LfCall(a, "Stop", 0, 0), polls)

\* set_bgfile, the post_set of 'integration'; ready: experiment.IsReadyToRun
LfSetBgfile(a, ready) ==
    LET a1 == LfCall(LfCall(a, "SetValue", "bgfile", 0), "IsReadyToRun", 0, IF ready THEN 1 ELSE 0)
    IN  IF ready THEN a1 ELSE LfRaise(a1, "A background file doesn't exist")

\* the getter make_param gives the param name
LfGetter(a, name, polls) ==
    LET a1 == LfStop(LfEnsure(a), polls)
    IN  IF a1.err # "" \/ debug THEN a1
        ELSE LfCall(a1, "GetValue", name, a1.val[name])

\* the setter make_param gives the param name (it returns None out of debug
\* mode, so the param then takes its value from the getter)
LfSetter(a, name, v, polls, ready) ==
    LET a1 == LfStop(LfEnsure(a), polls)
    IN  IF a1.err # "" THEN a1
        ELSE IF debug THEN [a1 EXCEPT !.val[name] = v]
        ELSE LET a2 == [LfCall(a1, "SetValue", name, v) EXCEPT !.val[name] = v]
                 a3 == IF name = "integration" THEN LfSetBgfile(a2, ready) ELSE a2
             IN  IF a3.err # "" THEN a3 ELSE LfGetter(a3, name, 0)

\* a param set, a param read
LfSet(name, v, polls, ready) == LfDone(LfSetter(lf, name, v, polls, ready), "set", name, "value")

LfGet(name, polls) == LfDone(LfGetter(lf, name, polls), "get", name, "value")

\* the getter of 'values'
LfValues(polls) ==
    LET a1 == LfEnsure(lf)
    IN  IF a1.err # "" \/ debug THEN LfDone(a1, "values", 0, "value")
        ELSE LfDone(LfCall(LfStop(a1, polls), "Capture", 1, 0), "values", 0, "value")

\* the action Launch; ok: LightField starts
LfLaunch(ok) ==
    IF debug THEN LfDone(lf, "Launch", 0, "none")
    ELSE IF ok
    THEN LfDone([LfCall(lf, "Automation", 0, 0) EXCEPT !.auto = TRUE, !.running = FALSE],
                "Launch", 0, "none")
    ELSE LfDone(LfRaise(LfCall(lf, "Automation", 0, 1), "Exception: Automation"), "Launch", 0, "none")

\* the action Acquire
LfAcquire(polls) ==
    LET a1 == LfEnsure(lf)
    IN  IF a1.err # "" \/ debug THEN LfDone(a1, "Acquire", 0, "none")
        ELSE LET a2 == LfCall(LfStop(a1, polls), "SetValue", "filename", 0)
                 a3 == [LfCall(a2, "Acquire", 0, 0) EXCEPT !.running = TRUE]
             IN  LfDone(LfWait(a3, 1), "Acquire", 0, "none")

\* LightField is launched with its window visible (Automation(True, ...)):
\* an acquisition can be started there, which is what _stop is for
LfRunInWindow ==
    /\ lf.auto /\ ~lf.running
    /\ LfDone([lf EXCEPT !.running = TRUE], "window", 0, "none")

NextLf ==
    \/ \E ok \in BOOLEAN : LfLaunch(ok)
    \/ \E name \in LfParams, v \in Pos, polls \in 0..MaxPolls, ready \in BOOLEAN :
           LfSet(name, v, polls, ready)
    \/ \E name \in LfParams, polls \in 0..MaxPolls : LfGet(name, polls)
    \/ \E polls \in 0..MaxPolls : LfValues(polls)
    \/ \E polls \in 0..MaxPolls : LfAcquire(polls)
    \/ LfRunInWindow


(***************************************************************************)
(* Serial base and the SC10 shutter (generic/hw_bases/serial.py,           *)
(* thorlabs/shutter_sc10.py)                                               *)
(*                                                                         *)
(* ser.port   "none": self.port is the class attribute None;               *)
(*            "open": it is a pySerial port that is open                   *)
(* ser.dev    the 'port' param: the device connect is to open              *)
(* ser.conn   the 'connected' param     ser.openP  the 'open' param        *)
(* ser.hwOpen the shutter is open                                          *)
(* ser.link   what was done last: "never" nothing, "up" connect opened a   *)
(*            port, "down" disconnect ran (a history variable)             *)
(* A call's g is ser.port at the call                                      *)
(***************************************************************************)
SerCall(a, f, x, r) == [a EXCEPT !.calls = Append(@, Call(f, x, r, a.port))]

SerRaise(a, e) == [a EXCEPT !.err = e]

SerDone(a, op, arg, okOutcome) ==
    /\ ser' = [a EXCEPT !.calls = <<>>, !.err = ""]
    /\ last' = Op("ser", 0, op, arg, [link |-> ser.link, port |-> ser.port],
                  IF a.err # "" THEN "raised" ELSE okOutcome, a.err, a.calls)
    /\ UNCHANGED <<debug, apt, cam, lf, http, dmd, slm, sdk, pv, pm, oo, live>>

\* the ensurer _ensure: hasattr(self, 'port') holds always, port being a
\* class attribute, so None.is_open is evaluated when there is no port
SerEnsure(a) ==
    IF debug THEN a
    ELSE IF a.port = "none" THEN SerRaise(a, "AttributeError: is_open")
    ELSE a

\* the devices the 'port' dropdown offers
Devices == {"COM1", "COM2"}

\* 'port' set to the device d
SerSetPort(d) == SerDone([ser EXCEPT !.dev = d], "port_set", d, "none")

\* 'connected' set to 1; ok: serial.Serial(...) opens the port
SerConnect(ok) ==
    IF debug THEN SerDone([ser EXCEPT !.conn = TRUE], "connect", 0, "value")
    ELSE IF ok
    THEN SerDone([SerCall(ser, "Serial", ser.dev, 0)
                     EXCEPT !.port = "open", !.conn = TRUE, !.link = "up"],
                 "connect", 0, "none")
    ELSE SerDone(SerRaise(SerCall(ser, "Serial", ser.dev, 1), "SerialException"),
                 "connect", 0, "none")

SerDisconnectKeepingPort(a) == a

\* the body of disconnect out of debug mode
SerDisconnectBody(a) ==
    IF SerEnsure(a).err = "" THEN [SerCall(a, "close", 0, 0) EXCEPT !.port = "none"] ELSE a

\* 'connected' set to 0
SerDisconnect ==
    IF debug THEN SerDone([ser EXCEPT !.conn = FALSE], "disconnect", 0, "value")
    ELSE SerDone([SerDisconnectBody(ser) EXCEPT !.conn = FALSE, !.link = "down"],
                 "disconnect", 0, "none")

\* get_state(); answers: the controller answers before the timeout
SC10GetState(a, answers) ==
    LET a1 == SerCall(a, "write", "ens?", 0)
        a2 == SerCall(a1, "read_until", 0, 0)
        a3 == SerCall(a2, "read_until", 0, IF ~answers THEN "" ELSE IF a.hwOpen THEN "1" ELSE "0")
    IN  IF a.port = "none" THEN SerRaise(a, "AttributeError: write")
        ELSE IF answers THEN a3 ELSE SerRaise(a3, "IndexError")

\* the setter of 'open' behind _ensure
SC10OpenSetter(a, value, answers) ==
    LET a0 == SerEnsure(a)
        a1 == SC10GetState(a0, answers)
    IN  IF a0.err # "" THEN a0
        ELSE IF debug THEN [a0 EXCEPT !.openP = value]
        ELSE IF a1.err # "" THEN a1
        ELSE IF a1.hwOpen = value THEN [a1 EXCEPT !.openP = value]
        ELSE [SerCall(SerCall(a1, "write", "ens", 0), "read_until", 0, 0)
                 EXCEPT !.hwOpen = value, !.openP = value]

\* 'open' set to value
SC10SetOpen(value, answers) ==
    SerDone(SC10OpenSetter(ser, value, answers), "open_set", value, "value")

\* 'open' read
SC10GetOpen(answers) ==
    LET a0 == SerEnsure(ser)
        a1 == SC10GetState(a0, answers)
    IN  IF a0.err # "" \/ debug THEN SerDone(a0, "open_get", 0, "value")
        ELSE IF a1.err # "" THEN SerDone(a1, "open_get", 0, "value")
        ELSE SerDone([a1 EXCEPT !.openP = a1.hwOpen], "open_get", 0, "value")

\* the action 'Close shutter'
SC10Toggle(answers) ==
    SerDone(SC10OpenSetter(ser, ~ser.openP, answers), "Close shutter", 0, "none")

\* the shutter also has a button on the controller's front panel
SC10FrontPanel ==
    SerDone([ser EXCEPT !.hwOpen = ~@], "front panel", 0, "none")

NextSer ==
    \/ \E d \in Devices : SerSetPort(d)
    \/ \E ok \in BOOLEAN : SerConnect(ok)
    \/ SerDisconnect
    \/ \E value \in BOOLEAN, answers \in BOOLEAN : SC10SetOpen(value, answers)
    \/ \E answers \in BOOLEAN : SC10GetOpen(answers)
    \/ \E answers \in BOOLEAN : SC10Toggle(answers)
    \/ SC10FrontPanel

(***************************************************************************)
(* HTTP base, Pharos and Topas (generic/hw_bases/http.py,                  *)
(* lightcon/pharos.py, lightcon/topas.py)                                  *)
(*                                                                         *)
(* http.output, http.divider   Pharos params                               *)
(* http.wl, http.shutter       Topas params                                *)
(* A call is one HTTP request, its r the status code of the response, 0    *)
(* when requests raises for want of a response                             *)
(***************************************************************************)
HttpOk == 200
Statuses == {0, HttpOk, 204, 404, 500}

HttpRaise(a, e) == [a EXCEPT !.err = e]

CheckResponseAny2xx(a, st) ==
    IF a.err # "" THEN a
    ELSE IF ~(st >= 200 /\ st < 300) THEN HttpRaise(a, "Error in HTTP request") ELSE a

\* check_response(r)
CheckResponse(a, st) ==
    IF a.err # "" THEN a
    ELSE IF ~(st = HttpOk) THEN HttpRaise(a, "Error in HTTP request") ELSE a

\* self.rq.get / put / post, then check_response on what it returns
HttpRequest(a, method, url, st) ==
    LET a1 == [a EXCEPT !.calls = Append(@, Call(method, url, st, 0))]
    IN  IF st = 0 THEN HttpRaise(a1, "ConnectionError") ELSE CheckResponse(a1, st)

HttpDone(a, who, op, arg, okOutcome) ==
    /\ http' = [a EXCEPT !.calls = <<>>, !.err = ""]
    /\ last' = Op("http", who, op, arg,
                  [output |-> http.output, divider |-> http.divider,
                   wl |-> http.wl, shutter |-> http.shutter],
                  IF a.err # "" THEN "raised" ELSE okOutcome, a.err, a.calls)
    /\ UNCHANGED <<debug, apt, cam, lf, ser, dmd, slm, sdk, pv, pm, oo, live>>

\* a getter that parses the response with int(r.text); parses: it is a number
HttpParsed(a, parses) ==
    IF a.err = "" /\ ~parses THEN HttpRaise(a, "ValueError") ELSE a

\* Pharos: the readouts 'state' and 'full_state', the latter through the
\* action Full state
PharosGetState(st) ==
    IF debug THEN HttpDone(http, "pharos", "state", 0, "value")
    ELSE HttpDone(HttpRequest(http, "get", "/Basic", st), "pharos", "state", 0, "value")

PharosFullState(st) ==
    IF debug THEN HttpDone(http, "pharos", "Full state", 0, "none")
    ELSE HttpDone(HttpRequest(http, "get", "/Basic", st), "pharos", "Full state", 0, "none")

\* Pharos: 'output' set to value, and read
PharosSetOutput(value, st) ==
    LET a1 == IF debug THEN http
              ELSE HttpRequest(http, "post",
                               IF value THEN "/Basic/EnableOutput" ELSE "/Basic/CloseOutput", st)
    IN  HttpDone(IF a1.err = "" THEN [a1 EXCEPT !.output = value] ELSE a1,
                 "pharos", "output_set", value, "value")

PharosGetOutput(st, r) ==
    LET a1 == IF debug THEN http ELSE HttpRequest(http, "get", "/Basic/IsOutputEnabled", st)
    IN  HttpDone(IF a1.err = "" /\ ~debug THEN [a1 EXCEPT !.output = r] ELSE a1,
                 "pharos", "output_get", 0, "value")

\* Pharos: 'divider' set to value, and read
PharosSetDivider(value, st) ==
    LET a1 == IF debug THEN http ELSE HttpRequest(http, "put", "/Basic/TargetPpDivider", st)
    IN  HttpDone(IF a1.err = "" THEN [a1 EXCEPT !.divider = value] ELSE a1,
                 "pharos", "divider_set", value, "value")

PharosGetDivider(st, r, parses) ==
    LET a1 == IF debug THEN [http EXCEPT !.divider = 1]
              ELSE HttpParsed(HttpRequest(http, "get", "/Basic/TargetPpDivider", st), parses)
    IN  HttpDone(IF a1.err = "" /\ ~debug THEN [a1 EXCEPT !.divider = r] ELSE a1,
                 "pharos", "divider_get", 0, "value")

\* Pharos: the action Standby; yes: the question (asked if confirm) is
\* answered Yes
PharosStandby(confirm, yes, st) ==
    IF (confirm /\ ~yes) \/ debug THEN HttpDone(http, "pharos", "Standby", 0, "none")
    ELSE HttpDone(HttpRequest(http, "post", "/Basic/GoToStandby", st), "pharos", "Standby", 1, "none")

\* Topas: 'wl' set to value, and read
TopasSetWl(value, st) ==
    LET a1 == IF debug THEN http ELSE HttpRequest(http, "put", "/SetWavelength", st)
    IN  HttpDone(IF a1.err = "" THEN [a1 EXCEPT !.wl = value] ELSE a1,
                 "topas", "wl_set", value, "value")

TopasGetWl(st, r, parses) ==
    LET a1 == IF debug THEN http
              ELSE HttpParsed(HttpRequest(http, "get", "/Output/Wavelength", st), parses)
    IN  HttpDone(IF a1.err = "" /\ ~debug THEN [a1 EXCEPT !.wl = r] ELSE a1,
                 "topas", "wl_get", 0, "value")

\* Topas: the setter of 'shutter'
TopasShutterSetter(a, value, st) ==
    LET a1 == IF debug THEN a
              ELSE HttpRequest(a, "put",
                               IF value THEN "/ShutterInterlock/OpenShutter"
                               ELSE "/ShutterInterlock/CloseShutter", st)
    IN  IF a1.err = "" THEN [a1 EXCEPT !.shutter = value] ELSE a1

\* Topas: 'shutter' set to value, and read
TopasSetShutter(value, st) ==
    HttpDone(TopasShutterSetter(http, value, st), "topas", "shutter_set", value, "value")

TopasGetShutter(st, r) ==
    LET a1 == IF debug THEN [http EXCEPT !.shutter = TRUE]
              ELSE HttpRequest(http, "get", "/ShutterInterlock/IsShutterOpen", st)
    IN  HttpDone(IF a1.err = "" /\ ~debug THEN [a1 EXCEPT !.shutter = r] ELSE a1,
                 "topas", "shutter_get", 0, "value")

\* Topas: the action 'Close shutter'
TopasCloseShutter(st) ==
    HttpDone(TopasShutterSetter(http, FALSE, st), "topas", "Close shutter", 0, "none")

NextHttp ==
    \/ \E st \in Statuses : PharosGetState(st)
    \/ \E st \in Statuses : PharosFullState(st)
    \/ \E value \in BOOLEAN, st \in Statuses : PharosSetOutput(value, st)
    \/ \E st \in Statuses, r \in BOOLEAN : PharosGetOutput(st, r)
    \/ \E value \in Pos, st \in Statuses : PharosSetDivider(value, st)
    \/ \E st \in Statuses, r \in Pos, parses \in BOOLEAN : PharosGetDivider(st, r, parses)
    \/ \E confirm \in BOOLEAN, yes \in BOOLEAN, st \in Statuses : PharosStandby(confirm, yes, st)
    \/ \E value \in Pos, st \in Statuses : TopasSetWl(value, st)
    \/ \E st \in Statuses, r \in Pos, parses \in BOOLEAN : TopasGetWl(st, r, parses)
    \/ \E value \in BOOLEAN, st \in Statuses : TopasSetShutter(value, st)
    \/ \E st \in Statuses, r \in BOOLEAN : TopasGetShutter(st, r)
    \/ \E st \in Statuses : TopasCloseShutter(st)

(***************************************************************************)
(* ViALUX DMD (vialux/dmd.py, class AdvancedPiece over class Piece)        *)
(*                                                                         *)
(* dmd.obj    the attribute self._dmd exists                               *)
(* dmd.lib    self._dmd has its _ALPLib (dropped by Free())                *)
(* dmd.init   self._dmd.Initialize() has allocated the device              *)
(* dmd.conn   the 'connected' param                                        *)
(* dmd.n      the 'n_images' param                                         *)
(* dmd.long   self._long_seq: "none" None, "live" a sequence allocated on  *)
(*            the handle self._dmd, "stale" a sequence of an earlier handle*)
(* dmd.nSince n_images was set after the last connect and the last         *)
(*            disconnect (a history variable)                              *)
(* A call's a is the sequence it is given, its g is dmd.long at the call   *)
(***************************************************************************)
DmdRaise(a, e) == [a EXCEPT !.err = e]

\* a call of the ALP4 handle self._dmd: the API reports an error for a
\* handle that holds no device, which ALP4 raises
DmdCall(a, f, x) ==
    IF a.err # "" THEN a
    ELSE IF ~a.init THEN DmdRaise([a EXCEPT !.calls = Append(@, Call(f, x, 1, a.long))], "ALP error")
    ELSE [a EXCEPT !.calls = Append(@, Call(f, x, 0, a.long))]

\* a call given self._long_seq; known: the device knows a sequence of that
\* id, which is open when the id comes from an earlier handle
DmdLongCall(a, f, known) ==
    IF a.err # "" THEN a
    ELSE IF a.init /\ a.long = "stale" /\ ~known
    THEN DmdRaise([a EXCEPT !.calls = Append(@, Call(f, "long", 1, a.long))], "ALP error")
    ELSE DmdCall(a, f, "long")

DmdDone(a, op, arg, okOutcome) ==
    /\ dmd' = [a EXCEPT !.calls = <<>>, !.err = ""]
    /\ last' = Op("dmd", 0, op, arg,
                  [conn |-> dmd.conn, long |-> dmd.long, nSince |-> dmd.nSince,
                   ensured |-> dmd.obj /\ dmd.lib],
                  IF a.err # "" THEN "raised" ELSE okOutcome, a.err, a.calls)
    /\ UNCHANGED <<debug, apt, cam, lf, ser, http, slm, sdk, pv, pm, oo, live>>

\* the ensurer _ensure
DmdEnsure(a) ==
    IF a.err # "" \/ debug THEN a
    ELSE IF a.obj /\ a.lib THEN a
    ELSE DmdRaise(a, "DMD not connected")

\* the ensurer _ensure_seq
DmdEnsureSeq(a) ==
    IF a.err # "" \/ debug THEN a
    ELSE IF a.long = "none" THEN DmdRaise(a, "Please set the n_images param.")
    ELSE a

\* the setter of 'image' (class Piece), which Black calls
DmdImageSetter(a) ==
    LET a1 == DmdEnsure(a)
    IN  IF a1.err # "" \/ debug THEN a1
        ELSE DmdCall(DmdCall(DmdCall(a1, "Halt", 0), "SeqPut", "short"), "Run", "short")

\* what connect does to self._long_seq: nothing
DmdConnectLong(long) == IF long = "none" THEN "none" ELSE "stale"

\* 'connected' set to 1; initOk: Initialize() allocates the device
DmdConnect(initOk) ==
    IF debug THEN DmdDone([DmdImageSetter(dmd) EXCEPT !.conn = TRUE], "connect", 0, "value")
    ELSE LET a1 == [dmd EXCEPT !.obj = TRUE, !.lib = TRUE, !.init = initOk,
                               !.long = DmdConnectLong(@),
                               !.calls = Append(@, Call("ALP4", 0, 0, dmd.long))]
             a2 == DmdCall(a1, "Initialize", 0)
             a3 == DmdImageSetter(DmdCall(a2, "SeqAlloc", "short"))
         IN  DmdDone(IF a3.err = "" THEN [a3 EXCEPT !.conn = TRUE, !.nSince = FALSE] ELSE a3,
                     "connect", 0, "value")

\* 'connected' set to 0
DmdDisconnect(known) ==
    LET a1 == DmdEnsure(dmd)
        a2 == DmdCall(a1, "Halt", 0)
        a3 == IF a2.err = "" /\ a2.long # "none"
              THEN [DmdLongCall(a2, "FreeSeq", known) EXCEPT
                       !.long = IF DmdLongCall(a2, "FreeSeq", known).err = "" THEN "none" ELSE @]
              ELSE a2
        a4 == DmdCall(DmdCall(a3, "FreeSeq", "short"), "Free", 0)
    IN  IF a1.err # "" THEN DmdDone(a1, "disconnect", 0, "value")
        ELSE IF debug THEN DmdDone([a1 EXCEPT !.conn = FALSE], "disconnect", 0, "value")
        ELSE DmdDone(IF a4.err = ""
                     THEN [a4 EXCEPT !.lib = FALSE, !.init = FALSE, !.conn = FALSE, !.nSince = FALSE]
                     ELSE a4,
                     "disconnect", 0, "value")

\* 'image' set (the actions White, Black and Display do this)
DmdSetImage == DmdDone(DmdImageSetter(dmd), "image_set", 0, "none")

\* the setter of 'illumination_time'
DmdIlluminationSetter(a, known) ==
    LET a1 == DmdEnsureSeq(DmdEnsure(a))
    IN  IF a1.err # "" \/ debug THEN a1
        ELSE DmdLongCall(DmdCall(a1, "SetTiming", "short"), "SetTiming", known)

\* 'illumination_time' set
DmdSetIllumination(known) ==
    DmdDone(DmdIlluminationSetter(dmd, known), "illumination_time_set", 0, "none")

\* 'n_images' set
DmdSetNImages(v, known) ==
    LET a1 == DmdEnsure(dmd)
        a2 == IF a1.long # "none" THEN DmdLongCall(a1, "FreeSeq", known) ELSE a1
        a3 == DmdCall(a2, "SeqAlloc", "long")
        a4 == IF a3.err = "" THEN [a3 EXCEPT !.long = "live", !.nSince = TRUE] ELSE a3
        a5 == DmdIlluminationSetter(a4, known)
    IN  IF a1.err # "" THEN DmdDone(a1, "n_images_set", v, "none")
        ELSE IF debug THEN DmdDone([a1 EXCEPT !.n = v], "n_images_set", v, "none")
        ELSE DmdDone(IF a5.err = "" THEN [a5 EXCEPT !.n = v] ELSE a5, "n_images_set", v, "none")

\* 'image_sequence' set
DmdSetImageSequence(known) ==
    LET a1 == DmdEnsureSeq(DmdEnsure(dmd))
    IN  IF a1.err # "" \/ debug THEN DmdDone(a1, "image_sequence_set", 0, "none")
        ELSE DmdDone(DmdLongCall(a1, "SeqPut", known), "image_sequence_set", 0, "none")

\* the action Halt
DmdHalt ==
    LET a1 == DmdEnsure(dmd)
    IN  IF a1.err # "" \/ debug THEN DmdDone(a1, "Halt", 0, "none")
        ELSE DmdDone(DmdCall(a1, "Halt", 0), "Halt", 0, "none")

\* the action Run Sequence
DmdRunSequence(known) ==
    LET a1 == DmdEnsureSeq(DmdEnsure(dmd))
    IN  IF a1.err # "" \/ debug THEN DmdDone(a1, "Run Sequence", 0, "none")
        ELSE DmdDone(DmdLongCall(a1, "Run", known), "Run Sequence", 0, "none")

NextDmd ==
    \/ \E initOk \in BOOLEAN : DmdConnect(initOk)
    \/ \E known \in BOOLEAN : DmdDisconnect(known)
    \/ DmdSetImage
    \/ \E known \in BOOLEAN : DmdSetIllumination(known)
    \/ \E v \in 1..MaxImages, known \in BOOLEAN : DmdSetNImages(v, known)
    \/ \E known \in BOOLEAN : DmdSetImageSequence(known)
    \/ DmdHalt
    \/ \E known \in BOOLEAN : DmdRunSequence(known)


(***************************************************************************)
(* The camera SDK shared by the camera Pieces of one Puzzle                *)
(* (thorlabs/camera.py, Base.setup / dispose / handle_close)               *)
(*                                                                         *)
(* sdk.setup    the Pieces whose setup() has run                           *)
(* sdk.closed   the Pieces whose handle_close() has run                    *)
(* sdk.handle   the Pieces that have the attribute self.camera             *)
(* sdk.count    the users puzzle.globals counts for 'tlc_sdk'              *)
(* sdk.present  'tlc_sdk' is in puzzle.globals                             *)
(* sdk.created, sdk.disposed  TLCameraSDK objects made, and disposed of    *)
(* A call's g is sdk.disposed at the call                                  *)
(***************************************************************************)
Cams == 1..NCams

SdkCall(a, f, x, r) == [a EXCEPT !.calls = Append(@, Call(f, x, r, a.disposed))]

SdkDone(a, p, op) ==
    /\ sdk' = [a EXCEPT !.calls = <<>>]
    /\ last' = Op("sdk", p, op, 0,
                  [users |-> sdk.setup \ sdk.closed, disposed |-> sdk.disposed],
                  "none", "", a.calls)
    /\ UNCHANGED <<debug, apt, cam, lf, ser, http, dmd, slm, pv, pm, oo, live>>

\* puzzle.globals.require('tlc_sdk'): count one more user
GlobalsRequire(a) == [a EXCEPT !.count = @ + 1]

GlobalsReleaseAlwaysLast(a) == a.count > 0

\* what puzzle.globals.release('tlc_sdk') returns after it has counted one
\* user less in a: no user is left
GlobalsRelease(a) == a.count = 0

\* setup() of camera Piece p, when the Piece is added to the Puzzle
TlcSetup(p) ==
    /\ ~debug
    /\ p \notin sdk.setup /\ sdk.closed = {}
    /\ LET a1 == [GlobalsRequire(sdk) EXCEPT !.setup = @ \cup {p}]
       IN  IF sdk.count = 0
           THEN SdkDone([SdkCall(a1, "TLCameraSDK", p, 0)
                            EXCEPT !.present = TRUE, !.created = @ + 1], p, "setup")
           ELSE SdkDone(a1, p, "setup")

\* camera Piece p toggles 'connected': the camera is opened through the SDK,
\* or disposed of
TlcToggleConnected(p) ==
    /\ ~debug
    /\ p \in sdk.setup \ sdk.closed
    /\ IF p \in sdk.handle
       THEN SdkDone([SdkCall(sdk, "camera.dispose", p, 0) EXCEPT !.handle = @ \ {p}],
                    p, "disconnect")
       ELSE SdkDone([SdkCall(sdk, "open_camera", p, 0) EXCEPT !.handle = @ \cup {p}],
                    p, "connect")

\* handle_close() of camera Piece p, when the Puzzle is closed
TlcHandleClose(p) ==
    /\ ~debug
    /\ p \in sdk.setup \ sdk.closed
    /\ LET a1 == IF p \in sdk.handle
                 THEN [SdkCall(sdk, "camera.dispose", p, 0) EXCEPT !.handle = @ \ {p}]
                 ELSE sdk
           a2 == [a1 EXCEPT !.count = @ - 1, !.closed = @ \cup {p}]
       IN  IF GlobalsRelease(a2)
           THEN SdkDone([SdkCall(a2, "tlc_sdk.dispose", p, 0)
                            EXCEPT !.present = FALSE, !.disposed = @ + 1], p, "close")
           ELSE SdkDone(a2, p, "close")

NextSdk ==
    \/ \E p \in Cams : TlcSetup(p)
    \/ \E p \in Cams : TlcToggleConnected(p)
    \/ \E p \in Cams : TlcHandleClose(p)


(***************************************************************************)
(* Image preview mixin (generic/mixins/image_preview.py), in a Piece with  *)
(* live_toggle = True                                                      *)
(*                                                                         *)
(* pv.image    the value of the 'image' param                              *)
(* pv.shown    what the ImageItem displays ("none" before the first update)*)
(* pv.pending  the CallLater of update_image is waiting for the event loop *)
(* pv.live     the Live timer runs                                         *)
(* pv.auto     the autolevel toggle; pv.levels: the levels the ImageItem   *)
(*             uses, "auto" or "fixed" ([0, max_counts])                   *)
(* pv.dirty    'image' has changed since the last update_image (a history  *)
(*             variable)                                                   *)
(***************************************************************************)
PvDone(a, op, arg) ==
    /\ pv' = a
    /\ last' = Op("pv", 0, op, arg, [live |-> pv.live, image |-> pv.image], "none", "", <<>>)
    /\ UNCHANGED <<debug, apt, cam, lf, ser, http, dmd, slm, sdk, pm, oo, live>>

ChangedNotConnected(a) == a

\* self.params['image'].changed, connected to update_later: the CallLater
\* asks the event loop for one call of update_image, however often it is
\* asked before that call
Changed(a) == [a EXCEPT !.pending = TRUE]

\* 'image' set to v from the GUI thread or a script
PvSetImage(v) ==
    PvDone(Changed([pv EXCEPT !.image = v, !.dirty = TRUE]), "image_set", v)

\* the event loop runs update_image
PvUpdateImage ==
    /\ pv.pending
    /\ PvDone([pv EXCEPT !.shown = pv.image, !.pending = FALSE, !.dirty = FALSE,
                          !.levels = IF pv.auto THEN "auto" ELSE @],
              "update_image", pv.image)

\* the autolevel toggle set to value
PvSetAutolevel(value) ==
    PvDone([pv EXCEPT !.auto = value, !.levels = IF value THEN "auto" ELSE "fixed"],
           "autolevel_set", 0)

\* the Live toggle switched on, and off
PvLiveOn ==
    /\ ~pv.live
    /\ PvDone([pv EXCEPT !.live = TRUE], "live_on", 0)

PvLiveOff ==
    /\ pv.live
    /\ PvDone([pv EXCEPT !.live = FALSE], "live_off", 0)

\* the Live timer calls self.params['image'].get_value: the getter returns
\* v, or raises (~ok), and then the timer goes on or stops (stops)
PvLiveTick(v, ok, stops) ==
    /\ pv.live
    /\ IF ok
       THEN PvDone(Changed([pv EXCEPT !.image = v, !.dirty = TRUE]), "tick", v)
       ELSE PvDone([pv EXCEPT !.live = ~stops], "tick_raised", 0)

\* call_stop(): the timer is stopped
PvCallStop == PvDone([pv EXCEPT !.live = FALSE], "call_stop", 0)


NextPv ==
    \/ \E v \in Pos : PvSetImage(v)
    \/ PvUpdateImage
    \/ \E value \in BOOLEAN : PvSetAutolevel(value)
    \/ PvLiveOn
    \/ PvLiveOff
    \/ \E v \in Pos, ok \in BOOLEAN, stops \in BOOLEAN : PvLiveTick(v, ok, stops)
    \/ PvCallStop

(***************************************************************************)
(* ThorLabs powermeter (thorlabs/powermeter.py)                            *)
(*                                                                         *)
(* pm.has   the attribute self.tlPM (an instance that is open, or being    *)
(*          opened by connect)                                             *)
(* pm.conn  the 'connected' param       pm.wl  the 'wavelength' param      *)
(* A call's g is whether self.tlPM exists at the call                      *)
(***************************************************************************)
\* the 'wavelength' param's first value, and what its getter gives in debug
\* mode when the value is 0
PmWavelength == 633

PmDebugWavelength == 500

PmCall(a, f, x, r) == [a EXCEPT !.calls = Append(@, Call(f, x, r, a.has))]

PmDone(a, op, arg, okOutcome) ==
    /\ pm' = [a EXCEPT !.calls = <<>>, !.err = ""]
    /\ last' = Op("pm", 0, op, arg, [has |-> pm.has, conn |-> pm.conn],
                  IF a.err # "" THEN "raised" ELSE okOutcome, a.err, a.calls)
    /\ UNCHANGED <<debug, apt, cam, lf, ser, http, dmd, slm, sdk, pv, oo, live>>

\* 'connected' set to 1; result: what tlPM.open returns
PmConnect(result) ==
    IF debug THEN PmDone([pm EXCEPT !.conn = TRUE], "connect", 0, "value")
    ELSE LET a1 == IF pm.has THEN PmCall(pm, "close", 0, 0) ELSE pm
             a2 == PmCall([PmCall(a1, "TLPM", 0, 0) EXCEPT !.has = TRUE], "open", 0, result)
         IN  IF result # 0
             THEN PmDone([PmCall(a2, "close", 0, 0) EXCEPT !.has = FALSE,
                                                          !.err = "Powermeter init failed"],
                         "connect", 0, "value")
             ELSE PmDone([a2 EXCEPT !.conn = TRUE], "connect", 0, "value")

\* 'connected' set to 0
PmDisconnect ==
    IF debug \/ ~pm.has THEN PmDone([pm EXCEPT !.conn = FALSE], "disconnect", 0, "value")
    ELSE PmDone([PmCall(pm, "close", 0, 0) EXCEPT !.has = FALSE, !.conn = FALSE],
                "disconnect", 0, "value")

\* the getter of 'wavelength' behind _ensure; r: what the meter answers
PmGetter(a, r) ==
    IF ~debug /\ ~a.has THEN [a EXCEPT !.err = "Powermeter not connected"]
    ELSE IF debug THEN [a EXCEPT !.wl = IF a.wl = 0 THEN PmDebugWavelength ELSE a.wl]
    ELSE [PmCall(a, "getWavelength", 0, r) EXCEPT !.wl = r]

\* 'wavelength' set to v: the setter returns nothing out of debug mode, so
\* the getter is called
PmSetWavelength(v, r) ==
    IF ~debug /\ ~pm.has
    THEN PmDone([pm EXCEPT !.err = "Powermeter not connected"], "wavelength_set", v, "value")
    ELSE IF debug THEN PmDone([pm EXCEPT !.wl = v], "wavelength_set", v, "value")
    ELSE PmDone(PmGetter(PmCall(pm, "setWavelength", v, 0), r), "wavelength_set", v, "value")

\* 'wavelength' read
PmGetWavelength(r) == PmDone(PmGetter(pm, r), "wavelength_get", 0, "value")

(***************************************************************************)
(* OceanOptics spectrometer (oceanoptics/spectrometer.py)                  *)
(*                                                                         *)
(* oo.has   the attribute self.spec     oo.open  that device is open       *)
(* oo.conn  the 'connected' param                                          *)
(* A call's g is whether the device is open at the call                    *)
(***************************************************************************)
OoCall(a, f, x, r) == [a EXCEPT !.calls = Append(@, Call(f, x, r, a.open))]

OoDone(a, op, okOutcome) ==
    /\ oo' = [a EXCEPT !.calls = <<>>, !.err = ""]
    /\ last' = Op("oo", 0, op, 0, [has |-> oo.has, open |-> oo.open, conn |-> oo.conn],
                  IF a.err # "" THEN "raised" ELSE okOutcome, a.err, a.calls)
    /\ UNCHANGED <<debug, apt, cam, lf, ser, http, dmd, slm, sdk, pv, pm, live>>

\* 'connected' set to 1; ok: from_serial_number finds the device and opens
\* it, which it cannot when the device is open already
OoConnect(ok) ==
    IF debug THEN OoDone([oo EXCEPT !.conn = TRUE], "connect", "value")
    ELSE IF ok /\ ~oo.open
    THEN OoDone([OoCall(oo, "from_serial_number", 0, 0)
                    EXCEPT !.has = TRUE, !.open = TRUE, !.conn = TRUE], "connect", "none")
    ELSE OoDone([OoCall(oo, "from_serial_number", 0, 1) EXCEPT !.err = "SeaBreezeError"],
                "connect", "none")

\* 'connected' set to 0: self.spec is closed and kept
OoDisconnect ==
    IF debug \/ ~oo.has THEN OoDone([oo EXCEPT !.conn = FALSE], "disconnect", "value")
    ELSE OoDone([OoCall(oo, "close", 0, 0) EXCEPT !.open = FALSE, !.conn = FALSE],
                "disconnect", "value")

\* 'values' read, behind _ensure, whose raise of a str is a TypeError
OoValues ==
    IF debug THEN OoDone(oo, "values_get", "value")
    ELSE IF ~oo.has THEN OoDone([oo EXCEPT !.err = "TypeError"], "values_get", "value")
    ELSE IF oo.open THEN OoDone(OoCall(oo, "spectrum", 0, 0), "values_get", "value")
    ELSE OoDone([OoCall(oo, "spectrum", 0, 1) EXCEPT !.err = "SeaBreezeError"],
                "values_get", "value")

\* 'connected' set to 0 on vialux.dmd.Piece, whose disconnect captures the
\* ensurer's exception and so answers nothing when there is no device
DmdPieceDisconnect ==
    LET a4 == DmdCall(DmdCall(DmdCall(dmd, "Halt", 0), "FreeSeq", "short"), "Free", 0)
    IN  IF debug THEN DmdDone([dmd EXCEPT !.conn = FALSE], "disconnect", 0, "value")
        ELSE IF DmdEnsure(dmd).err # ""
        THEN DmdDone([dmd EXCEPT !.conn = FALSE], "disconnect", 0, "none")
        ELSE DmdDone(IF a4.err = ""
                     THEN [a4 EXCEPT !.lib = FALSE, !.init = FALSE, !.conn = FALSE]
                     ELSE a4,
                     "disconnect", 0, "value")

(***************************************************************************)
(* The camera Piece's Live timer (thorlabs/camera.py, class Piece)         *)
(*                                                                         *)
(* The PuzzleTimer's thread calls the 'image' param's get_value over and   *)
(* over while the timer is on; the GUI thread goes on running handlers.    *)
(* Nothing orders the two threads, so the call is taken apart at the       *)
(* points where the other thread can run: after each ensurer and after the *)
(* trigger.  The GUI thread's 'roi' setter is taken apart after its        *)
(* ensurers in the same way.                                               *)
(*                                                                         *)
(* live.on   the timer is running                                          *)
(* live.pc   where the timer's thread is in get_image: "idle" between      *)
(*           calls, "connected" after _ensure_connected, "armed" after     *)
(*           _ensure_armed, "triggered" before get_pending_frame_or_null   *)
(* live.gui  "roi" while the GUI thread is in the 'roi' setter, after its  *)
(*           ensurers and before the write                                 *)
(***************************************************************************)
\* a part of a handler has run on one of the threads
LiveDone(a, op, pc, gui, stops) ==
    /\ cam' = [a EXCEPT !.calls = <<>>, !.err = ""]
    /\ live' = [on |-> live.on /\ ~(a.err # "" /\ stops),
                pc |-> IF a.err # "" /\ op = "live" THEN "idle" ELSE pc,
                gui |-> IF a.err # "" /\ op = "roi_set" THEN "idle" ELSE gui]
    /\ last' = Op("cam", 0, op, 0,
                  [conn |-> cam.conn, armed |-> cam.armedP, hw |-> cam.hw, has |-> cam.has],
                  IF a.err # "" THEN "raised" ELSE "none", a.err, a.calls)
    /\ UNCHANGED <<debug, apt, lf, ser, http, dmd, slm, sdk, pv, pm, oo>>

\* the timer's thread runs the next part of get_image; stops: the timer
\* stops when the call raises
LiveStep(strict, frame, stops) ==
    /\ live.on \/ live.pc # "idle"
    /\ IF live.pc = "idle"
       THEN LiveDone(CamEnsureConnected(cam), "live", "connected", live.gui, stops)
       ELSE IF live.pc = "connected"
       THEN LiveDone(CamEnsureArmed(cam, strict), "live", "armed", live.gui, stops)
       ELSE IF live.pc = "armed"
       THEN LiveDone(IF ~cam.unl \/ ~cam.trig THEN CamTriggerBody(cam) ELSE cam,
                     "live", "triggered", live.gui, stops)
       ELSE IF ~cam.has
       THEN LiveDone(CamRaise(cam, "AttributeError: camera"), "live", "idle", live.gui, stops)
       ELSE LiveDone(IF frame
                     THEN CamCall(cam, "get_pending_frame_or_null", 0, 0)
                     ELSE CamRaise(CamCall(cam, "get_pending_frame_or_null", 0, 1),
                                   "Acquisition did not complete within the timeout..."),
                     "live", "idle", live.gui, stops)

\* the GUI thread enters the 'roi' setter and runs its ensurers
GuiRoiBegin(strict) ==
    /\ live.gui = "idle"
    /\ LiveDone(CamEnsureDisarmed(CamEnsureConnected(cam), strict), "roi_set", live.pc, "roi",
                FALSE)

\* the GUI thread writes camera.roi and reads it back
GuiRoiWrite(v) ==
    /\ live.gui = "roi"
    /\ LiveDone(IF cam.has THEN CamRoiGetter(CamCall(cam, "set_roi", v, 0))
                ELSE CamRaise(cam, "AttributeError: camera"),
                "roi_write", live.pc, "idle", FALSE)

\* the Live button is pressed
LiveToggle ==
    /\ live.gui = "idle"
    /\ live' = [live EXCEPT !.on = ~@]
    /\ last' = Op("cam", 0, "live_toggle", 0,
                  [conn |-> cam.conn, armed |-> cam.armedP, hw |-> cam.hw, has |-> cam.has],
                  "none", "", <<>>)
    /\ UNCHANGED <<debug, apt, cam, lf, ser, http, dmd, slm, sdk, pv, pm, oo>>

NextLive ==
    \/ \E strict \in BOOLEAN, frame \in BOOLEAN, stops \in BOOLEAN : LiveStep(strict, frame, stops)
    \/ \E strict \in BOOLEAN : GuiRoiBegin(strict)
    \/ \E v \in Pos : GuiRoiWrite(v)
    \/ LiveToggle
    \/ /\ live.gui = "idle"
       /\ \/ \E value \in BOOLEAN, openOk \in BOOLEAN : CamSetConnected(value, openOk)
          \/ \E value \in BOOLEAN, strict \in BOOLEAN : CamSetArmed(value, strict)
          \/ \E value \in BOOLEAN, strict \in BOOLEAN : CamSetUnlimited(value, strict)

(***************************************************************************)
(* Specifications                                                          *)
(***************************************************************************)
\* every Piece as its constructor leaves it, in a Puzzle made with debug=d
InitWith(d) ==
    /\ debug = d
    /\ apt = [glob |-> ~debug, loads |-> IF debug THEN 0 ELSE 1,
              conn |-> [p \in AptPieces |-> FALSE], motor |-> [p \in AptPieces |-> FALSE],
              pos |-> [p \in Stages |-> 0], chan |-> [i \in Chans |-> 0],
              hwChan |-> 0, cut |-> FALSE, calls |-> <<>>, err |-> ""]
    /\ cam = [conn |-> FALSE, has |-> FALSE, armedP |-> FALSE, hw |-> FALSE, unl |-> FALSE,
              trig |-> FALSE, fired |-> FALSE, exp |-> 0, hwExp |-> 0, calls |-> <<>>,
              err |-> ""]
    /\ lf = [auto |-> FALSE, running |-> FALSE, val |-> [n \in LfParams |-> 0],
             calls |-> <<>>, err |-> ""]
    /\ ser = [port |-> "none", dev |-> "COM1", conn |-> FALSE, openP |-> FALSE,
              hwOpen |-> FALSE, link |-> "never", calls |-> <<>>, err |-> ""]
    /\ http = [output |-> FALSE, divider |-> 1, wl |-> 0, shutter |-> FALSE, calls |-> <<>>,
               err |-> ""]
    /\ dmd = [obj |-> FALSE, lib |-> FALSE, init |-> FALSE, conn |-> FALSE, n |-> 1,
              long |-> "none", nSince |-> FALSE, calls |-> <<>>, err |-> ""]
    /\ slm = [conn |-> FALSE, has |-> FALSE, wl |-> 0, corr |-> FALSE, calls |-> <<>>, err |-> ""]
    /\ sdk = [setup |-> {}, closed |-> {}, handle |-> {}, count |-> 0, present |-> FALSE,
              created |-> 0, disposed |-> 0, calls |-> <<>>]
    /\ pv = [image |-> 0, shown |-> "none", pending |-> FALSE, live |-> FALSE, auto |-> FALSE,
             levels |-> "fixed", dirty |-> FALSE]
    /\ pm = [has |-> FALSE, conn |-> FALSE, wl |-> PmWavelength, calls |-> <<>>, err |-> ""]
    /\ oo = [has |-> FALSE, open |-> FALSE, conn |-> FALSE, calls |-> <<>>, err |-> ""]
    /\ live = [on |-> FALSE, pc |-> "idle", gui |-> "idle"]
    /\ last = NoOp

\* the APT Pieces of a Puzzle made with debug=False
SpecApt == InitWith(FALSE) /\ [][NextApt]_vars

\* the camera Piece of a Puzzle made with debug=False
SpecCam == InitWith(FALSE) /\ [][NextCam]_vars

\* the LightField Piece of a Puzzle made with debug=False
SpecLightfield == InitWith(FALSE) /\ [][NextLf]_vars

\* the camera and LightField Pieces of a Puzzle made with debug=False
NextAcq == NextCam \/ NextLf
SpecAcq == InitWith(FALSE) /\ [][NextAcq]_vars

\* the SC10 shutter Piece of a Puzzle made with debug=False
SpecSerial == InitWith(FALSE) /\ [][NextSer]_vars

\* the Pharos and Topas Pieces of a Puzzle made with debug=False
SpecHttp == InitWith(FALSE) /\ [][NextHttp]_vars

\* the DMD AdvancedPiece of a Puzzle made with debug=False
SpecDmd == InitWith(FALSE) /\ [][NextDmd]_vars

\* the camera Pieces of a Puzzle made with debug=False, from the first
\* add_piece to the close of the Puzzle
SpecSdk == InitWith(FALSE) /\ [][NextSdk]_vars

\* a Piece with the image preview: the event loop gets to run a waiting
\* CallLater, and the timer's thread gets to run while the timer is on
SpecPreview ==
    /\ InitWith(FALSE) /\ [][NextPv]_vars
    /\ WF_vars(PvUpdateImage)
    /\ WF_vars(\E v \in Pos, ok \in BOOLEAN, stops \in BOOLEAN : PvLiveTick(v, ok, stops))

\* the APT and SLM Pieces of a Puzzle made with debug=True
NextDebug == NextApt \/ NextSlm

SpecDebug == InitWith(TRUE) /\ [][NextDebug]_vars

\* a Puzzle made with debug=False holds one of the APT piezo, SLM, powermeter
\* and camera Pieces: the Piece whose operation ran first is the one it holds
NextConnect ==
    \/ /\ last.dev \in {NoOp.dev, "apt"}
       /\ \/ \E serialOk \in BOOLEAN, e \in ErrCodes : PiezoConnect(serialOk, e)
          \/ AptDisconnect(Piezo)
          \/ \E i \in Chans, v \in Pos, e1 \in ErrCodes, e2 \in ErrCodes,
                e3 \in ErrCodes, e4 \in ErrCodes, r \in Pos : PiezoSet(i, v, e1, e2, e3, e4, r)
          \/ \E i \in Chans, e1 \in ErrCodes, e2 \in ErrCodes, r \in Pos : PiezoGet(i, e1, e2, r)
    \/ last.dev \in {NoOp.dev, "slm"} /\ NextSlm
    \/ /\ last.dev \in {NoOp.dev, "pm"}
       /\ \/ \E result \in ErrCodes : PmConnect(result)
          \/ PmDisconnect
          \/ \E v \in Pos, r \in Pos : PmSetWavelength(v, r)
          \/ \E r \in Pos : PmGetWavelength(r)
    \/ last.dev \in {NoOp.dev, "cam"} /\ NextCam

SpecConnect == InitWith(FALSE) /\ [][NextConnect]_vars

\* a Puzzle made with debug=False holds one of the spectrometer, SC10
\* shutter, DMD and powermeter Pieces
NextDisconnect ==
    \/ /\ last.dev \in {NoOp.dev, "oo"}
       /\ \/ \E ok \in BOOLEAN : OoConnect(ok)
          \/ OoDisconnect
          \/ OoValues
    \/ last.dev \in {NoOp.dev, "ser"} /\ NextSer
    \/ /\ last.dev \in {NoOp.dev, "dmd"}
       /\ \/ \E initOk \in BOOLEAN : DmdConnect(initOk)
          \/ DmdPieceDisconnect
          \/ DmdSetImage
    \/ /\ last.dev \in {NoOp.dev, "pm"}
       /\ \/ \E result \in ErrCodes : PmConnect(result)
          \/ PmDisconnect
          \/ \E v \in Pos, r \in Pos : PmSetWavelength(v, r)
          \/ \E r \in Pos : PmGetWavelength(r)

SpecDisconnect == InitWith(FALSE) /\ [][NextDisconnect]_vars

\* the camera Piece of a Puzzle made with debug=False, its Live timer's
\* thread running beside the GUI thread
SpecLive == InitWith(FALSE) /\ [][NextLive]_vars

(***************************************************************************)
(* The claims                                                              *)
(***************************************************************************)
\* C1: with the Puzzle's debug flag set, no setter, getter or action calls a
\* hardware handle: every operation returns a synthetic value or does
\* nothing (it makes no vendor call and raises nothing).
C1_DebugNeverReachesHardware ==
    debug => (last.calls = <<>> /\ last.outcome \in {"value", "none"})

IsPiezoIO(c) == c.f \in {"PZMOT_MoveAbsoluteStepsEx", "PZMOT_GetPositionSteps"}

\* C3: in apt_piezo every PZMOT_MoveAbsoluteStepsEx and PZMOT_GetPositionSteps
\* issued for the param of channel i comes right after a PZMOT_SetChannel(i)
\* that returned 0 in the same setter/getter call, and so reaches the
\* controller while it has channel i selected; a PZMOT_SetChannel that
\* returns a non-zero code makes the operation raise, no move or read
\* following it.
C3_ChannelSelectedBeforeMoveAndRead ==
    (last.dev = "apt" /\ last.op \in {"chan_set", "chan_get"}) =>
        \A k \in 1..Len(last.calls) :
            /\ IsPiezoIO(last.calls[k]) =>
                  /\ k > 1
                  /\ last.calls[k - 1].f = "PZMOT_SetChannel"
                  /\ last.calls[k - 1].a = last.arg
                  /\ last.calls[k - 1].r = 0
                  /\ last.calls[k].g = last.arg
            /\ (last.calls[k].f = "PZMOT_SetChannel" /\ last.calls[k].r # 0) =>
                  /\ last.outcome = "raised"
                  /\ \A j \in (k + 1)..Len(last.calls) : ~IsPiezoIO(last.calls[j])

\* a move on a channel other than the one the controller had selected
C3_Witness ==
    /\ last.dev = "apt" /\ last.op = "chan_set"
    /\ \E k \in 2..Len(last.calls) :
          /\ last.calls[k].f = "PZMOT_MoveAbsoluteStepsEx"
          /\ last.calls[k - 1].g # last.arg

\* C8: when one APT Piece disconnects or runs Cleanup, the handler finishes
\* (the deletion signal does not re-trigger itself without end), and after it
\* every APT Piece has 'connected' False and no motor handle; in every state
\* no Piece is connected, or holds a motor, while 'apt' is not a global.
C8_DisconnectingAptDisconnectsAll ==
    /\ ~apt.cut
    /\ ~apt.glob => \A p \in AptPieces : ~apt.conn[p] /\ ~apt.motor[p]
    /\ (last.dev = "apt" /\ last.op \in {"disconnect", "Cleanup"} /\ last.pre.glob) =>
          /\ last.outcome # "raised"
          /\ \A p \in AptPieces : ~apt.conn[p] /\ ~apt.motor[p]

\* two Pieces were connected and one of them has disconnected
C8_Witness ==
    /\ last.dev = "apt" /\ last.op = "disconnect"
    /\ last.pre.glob /\ last.pre.conn[last.who]
    /\ \E q \in AptPieces : q # last.who /\ last.pre.conn[q] /\ ~apt.conn[q]

AptGuardedOps == {"pos_set", "pos_get", "Home", "Identify", "chan_set", "chan_get"}

Loads(calls) == Cardinality({k \in 1..Len(calls) : calls[k].f = "load_library"})

\* C9: after Cleanup or a disconnect, by a connected Piece or not, 'apt' is
\* not a global; while it is not, every guarded motor and piezo operation
\* raises 'Motor not connected' and calls nothing; the library is loaded
\* again by the next connect and by nothing else, once.
C9_CleanupReleasesApt ==
    /\ apt.loads <= 1
    /\ last.dev = "apt" =>
          /\ last.op \in {"disconnect", "Cleanup"} => ~apt.glob
          /\ (last.op \in AptGuardedOps /\ ~last.pre.glob) =>
                /\ last.outcome = "raised"
                /\ last.err = "Motor not connected"
                /\ last.calls = <<>>
          /\ (last.op = "connect" /\ ~last.pre.glob) =>
                (apt.glob /\ Loads(last.calls) = 1)
          /\ (last.op # "connect" \/ last.pre.glob) => Loads(last.calls) = 0

\* a guarded operation tried after the library was released
C9_Witness ==
    /\ last.dev = "apt" /\ last.op \in AptGuardedOps
    /\ ~last.pre.glob /\ last.outcome = "raised"

CamConfigWrite(c) == c.f \in {"set_roi", "set_frames_per_trigger"}

\* C2: the camera is disarmed before its ROI or frames-per-trigger setting
\* is changed: camera.roi and camera.frames_per_trigger_zero_for_unlimited
\* are written only while the 'armed' param is 0.
C2_ConfigWrittenOnlyWhileDisarmed ==
    last.dev = "cam" =>
        \A k \in 1..Len(last.calls) : CamConfigWrite(last.calls[k]) => ~last.calls[k].g.armed

LfSettingIO(c) == c.f \in {"SetValue", "GetValue"}

\* C4: a set or a read of 'integration', 'center' or 'roi' calls
\* experiment.Stop() and sees experiment.IsRunning false before it calls
\* experiment.SetValue or experiment.GetValue, so that call is made while no
\* acquisition runs; before Launch it raises 'You have to launch Lightfield
\* first.' and makes no call at all.
C4_StoppedBeforeSettingIO ==
    (last.dev = "lf" /\ last.op \in {"set", "get"}) =>
        /\ \A k \in 1..Len(last.calls) :
               LfSettingIO(last.calls[k]) =>
                   /\ ~last.calls[k].g
                   /\ \E i \in 1..(k - 1), j \in 1..(k - 1) :
                          /\ i < j
                          /\ last.calls[i].f = "Stop"
                          /\ last.calls[j].f = "IsRunning" /\ last.calls[j].r = 0
        /\ ~last.pre.auto =>
               /\ last.outcome = "raised"
               /\ last.err = "You have to launch Lightfield first."
               /\ last.calls = <<>>

\* a set that found an acquisition running, polled it until it ended, and
\* then wrote the setting
C4_Witness ==
    /\ last.dev = "lf" /\ last.op = "set" /\ last.pre.running
    /\ \E k \in 1..Len(last.calls) : last.calls[k].f = "IsRunning" /\ last.calls[k].r = 1
    /\ \E k \in 1..Len(last.calls) : last.calls[k].f = "SetValue"

ExposureSet ==
    \/ last.dev = "lf" /\ last.op = "set" /\ last.arg = "integration"
    \/ last.dev = "cam" /\ last.op = "exposure_set"

ExposureWrite(c) ==
    \/ c.f = "SetValue" /\ c.a = "integration"
    \/ c.f = "set_exposure_time_us"

AcqActive(c) == IF last.dev = "lf" THEN c.g ELSE c.g.hw

\* C5 as stated: a change of the exposure stops a running acquisition before
\* the new exposure is written, and the acquisition state after the setter
\* returns is the one before the call.
C5_StoppedAndRestored ==
    (ExposureSet /\ last.outcome # "raised" /\ ~debug) =>
        /\ \A k \in 1..Len(last.calls) : ExposureWrite(last.calls[k]) => ~AcqActive(last.calls[k])
        /\ last.dev = "lf" => lf.running = last.pre.running
        /\ last.dev = "cam" => cam.hw = last.pre.hw /\ cam.armedP = last.pre.armed

CamArming(c) == c.f \in {"arm", "disarm"}

\* C5: a set of LightField's 'integration' stops a running acquisition
\* before the new exposure is written and does not start it again: no
\* acquisition runs when the setter is done.  A set of the Thorlabs camera's
\* 'exposure' neither disarms nor arms: the exposure is written in whatever
\* armed state the camera is in, and that state is left as it was.
C5_LightfieldStopsCameraDoesNot ==
    (ExposureSet /\ ~debug) =>
        /\ last.dev = "lf" =>
               /\ \A k \in 1..Len(last.calls) : ExposureWrite(last.calls[k]) => ~last.calls[k].g
               /\ last.pre.auto => ~lf.running
        /\ last.dev = "cam" =>
               /\ \A k \in 1..Len(last.calls) : ~CamArming(last.calls[k])
               /\ \A k \in 1..Len(last.calls) :
                      ExposureWrite(last.calls[k]) => last.calls[k].g.hw = last.pre.hw
               /\ cam.hw = last.pre.hw /\ cam.armedP = last.pre.armed

\* LightField's 'integration' set while an acquisition ran
C5_Witness ==
    /\ last.dev = "lf" /\ last.op = "set" /\ last.arg = "integration"
    /\ last.pre.running /\ last.outcome = "value" /\ ~lf.running
    /\ \E k \in 1..Len(last.calls) : ExposureWrite(last.calls[k])

SC10Ops == {"open_set", "open_get"}

\* C6: out of debug mode the SC10 shutter's 'open' setter and getter write
\* to and read from the port only if connect has opened a port and no
\* disconnect has run since; before the first connect and after a
\* disconnect they raise, and no byte is sent or read.
C6_PortIOOnlyWhileConnected ==
    (last.dev = "ser" /\ last.op \in SC10Ops /\ ~debug) =>
        /\ last.calls # <<>> =>
               /\ last.pre.link = "up"
               /\ \A k \in 1..Len(last.calls) : last.calls[k].g = "open"
        /\ last.pre.link # "up" => last.outcome = "raised" /\ last.calls = <<>>

\* 'open' set after a disconnect that followed a connect: it raised
C6_Witness ==
    /\ last.dev = "ser" /\ last.op = "open_set" /\ last.pre.link = "down"
    /\ last.outcome = "raised" /\ last.calls = <<>>
    /\ ser.conn = FALSE

HttpDeclined == last.op = "Standby" /\ last.arg = 0

\* C7: check_response raises for every status other than 200 and returns
\* normally for 200, so every Pharos and Topas setter, getter and action
\* that makes a request completes without exception only if the answer was
\* 200; on another status an exception reaches the caller, the request was
\* made once, and no param has changed.
C7_OnlyStatus200Succeeds ==
    (last.dev = "http" /\ ~debug) =>
        /\ Len(last.calls) <= 1
        /\ ~HttpDeclined => Len(last.calls) = 1
        /\ \A k \in 1..Len(last.calls) :
               /\ last.calls[k].r # HttpOk =>
                      /\ last.outcome = "raised"
                      /\ last.calls[k].r # 0 => last.err = "Error in HTTP request"
                      /\ [n \in DOMAIN last.pre |-> http[n]] = last.pre
               /\ last.calls[k].r = HttpOk => last.err # "Error in HTTP request"
        /\ (last.outcome # "raised" /\ ~HttpDeclined) => last.calls[1].r = HttpOk

\* Pharos 'output' set to the value it does not have, answered 204
C7_Witness ==
    /\ last.dev = "http" /\ last.op = "output_set" /\ last.arg # last.pre.output
    /\ Len(last.calls) = 1 /\ last.calls[1].r = 204
    /\ last.outcome = "raised"

DmdSeqOps == {"image_sequence_set", "illumination_time_set", "Run Sequence"}

\* C10: in the connected DMD AdvancedPiece out of debug mode, a set of
\* 'image_sequence' or 'illumination_time' and Run Sequence raise 'Please set
\* the n_images param.' and make no DMD call when n_images has not been set
\* since the last connect and the last disconnect; once it has been set they
\* work on the sequence the most recent n_images set allocated.
C10_SequenceOpsRequireNImages ==
    (last.dev = "dmd" /\ last.op \in DmdSeqOps /\ last.pre.conn /\ ~debug) =>
        /\ ~last.pre.nSince =>
               /\ last.outcome = "raised"
               /\ last.err = "Please set the n_images param."
               /\ last.calls = <<>>
        /\ last.pre.nSince =>
               \A k \in 1..Len(last.calls) : last.calls[k].a = "long" => last.calls[k].g = "live"

\* C12: out of debug mode the camera's 'armed' param is set exactly when the
\* camera handle that is open has been armed and not disarmed since; after a
\* disconnect while armed and a reconnect, 'armed' is 0.
C12_ArmedParamReflectsHardware ==
    ~debug => (cam.armedP <=> cam.hw)

FrameRequest(c) == c.f = "get_pending_frame_or_null"

\* C15: out of debug mode a frame is requested only when the camera is
\* connected, 'armed' is set and a software trigger has been issued since
\* the camera was last armed; with 'unlimited' off a trigger is issued right
\* before every frame request; a request that brings no frame makes the
\* getter raise 'Acquisition did not complete within the timeout...'.
C15_FrameRequestedOnlyAfterTrigger ==
    (last.dev = "cam" /\ ~debug) =>
        \A k \in 1..Len(last.calls) :
            FrameRequest(last.calls[k]) =>
                /\ last.calls[k].g.conn /\ last.calls[k].g.armed /\ last.calls[k].g.fired
                /\ ~cam.unl => (k > 1 /\ last.calls[k - 1].f = "issue_software_trigger")
                /\ last.calls[k].r = 1 =>
                       /\ last.outcome = "raised"
                       /\ last.err = "Acquisition did not complete within the timeout..."

\* C16: the SDK object behind 'tlc_sdk' is made once, by the first camera
\* Piece that sets up; it is not disposed of while a camera Piece that has
\* not closed uses it; it is disposed of exactly once; when all Pieces have
\* closed it has been disposed of and is no longer a global; and every
\* Piece's camera handle is disposed of before the SDK is.
C16_SdkDisposedOnceByLastPiece ==
    ~debug =>
        /\ sdk.created <= 1 /\ sdk.disposed <= 1
        /\ sdk.setup # {} => sdk.created = 1
        /\ sdk.setup \ sdk.closed # {} => (sdk.present /\ sdk.disposed = 0)
        /\ (sdk.setup # {} /\ sdk.setup = sdk.closed) =>
               (sdk.disposed = 1 /\ ~sdk.present /\ sdk.handle = {})
        /\ last.dev = "sdk" =>
               \A k \in 1..Len(last.calls) :
                   last.calls[k].f \in {"camera.dispose", "open_camera"} => last.calls[k].g = 0

\* the last of several Pieces closed, with its camera open, after the others
C16_Witness ==
    /\ Cardinality(sdk.closed) > 1 /\ sdk.setup = sdk.closed
    /\ last.dev = "sdk" /\ last.op = "close" /\ Len(last.calls) = 2
    /\ last.calls[1].f = "camera.dispose" /\ last.calls[2].f = "tlc_sdk.dispose"

\* C11: every change of 'image' is eventually followed by an update_image
\* that shows the value the param then has; while the Live timer is on the
\* image getter is called again and again until the timer is stopped; and
\* call_stop stops the timer, after which it calls the getter no more.
C11_PreviewFollowsImage ==
    /\ pv.dirty ~> (last.op = "update_image" /\ pv.shown = pv.image /\ ~pv.dirty)
    /\ pv.live ~> (last.op \in {"tick", "tick_raised"} \/ ~pv.live)
    /\ [](last.op = "call_stop" => ~pv.live)
    /\ [](last.op \in {"tick", "tick_raised"} => last.pre.live)

\* an update that shows the value the running Live timer has just fetched
C11_Witness ==
    /\ last.op = "update_image" /\ pv.live
    /\ pv.shown = pv.image /\ pv.shown # 0

\* the last operation was a connect that raised
FailedConnect ==
    /\ last.outcome = "raised"
    /\ \/ last.dev = "apt" /\ last.who = Piezo /\ last.op = "connect"
       \/ last.dev \in {"slm", "pm"} /\ last.op = "connect"
       \/ last.dev = "cam" /\ last.op = "connected_set" /\ last.arg = 1

\* the operations behind an ensurer of the Pieces that can fail to connect
ConnectGuarded(o) ==
    \/ o.dev = "apt" /\ o.who = Piezo /\ o.op \in {"chan_set", "chan_get"}
    \/ o.dev = "slm" /\ o.op \in {"image_set", "wavelength_set", "wavelength_get",
                                 "correction_file_set"}
    \/ o.dev = "pm" /\ o.op \in {"wavelength_set", "wavelength_get"}
    \/ o.dev = "cam" /\ o.op # "connected_set"

\* C13: a connect that raises leaves the Piece not connected: the guarded
\* operation that comes after a failed connect of the APT piezo, the SLM, the
\* powermeter or the camera raises and makes no call on the hardware.
C13_FailedConnectLeavesNotConnected ==
    [][(FailedConnect /\ ConnectGuarded(last'))
          => (last'.outcome = "raised" /\ last'.calls = <<>>)]_vars

\* the last operation was a disconnect that completed
CompletedDisconnect ==
    /\ last.dev \in {"oo", "ser", "dmd", "pm"}
    /\ last.op = "disconnect"
    /\ last.outcome # "raised"

\* the operations behind an ensurer of the Pieces that close a handle on
\* disconnect
DisconnectGuarded(o) ==
    \/ o.dev = "oo" /\ o.op = "values_get"
    \/ o.dev = "ser" /\ o.op \in {"open_set", "open_get"}
    \/ o.dev = "dmd" /\ o.op = "image_set"
    \/ o.dev = "pm" /\ o.op \in {"wavelength_set", "wavelength_get"}

\* C14: once a disconnect has completed, the guarded operation that comes
\* next (the spectrometer's 'values', the shutter's 'open', the DMD's 'image',
\* the powermeter's 'wavelength') raises and makes no call on the closed
\* handle.
C14_NoCallAfterDisconnect ==
    [][(CompletedDisconnect /\ DisconnectGuarded(last'))
          => (last'.outcome = "raised" /\ last'.calls = <<>>)]_vars

\* C17: whatever the GUI thread changes while the Live timer's thread reads
\* 'image', get_pending_frame_or_null is called only on an open handle that
\* is armed, and camera.roi is written only while the camera is not armed.
C17_LiveKeepsSequencing ==
    last.dev = "cam" =>
        \A i \in DOMAIN last.calls :
            /\ last.calls[i].f = "get_pending_frame_or_null" => last.calls[i].g.hw
            /\ last.calls[i].f = "set_roi" => ~last.calls[i].g.hw

====
